---------------------------- MODULE Spec2Model ----------------------------
(***************************************************************************)
(* A model of epsaku, a terminal EPUB reader:                              *)
(*   - epub/render.rs  render_node, the recursive walk of a chapter tree   *)
(*   - epub.rs         parse_container, parse_package, Epub::new/render    *)
(*   - ui.rs           run, the pager loop                                 *)
(* Each part has its own specification over the shared variables; the      *)
(* variables of the parts a specification does not exercise keep their     *)
(* initial values.                                                         *)
(***************************************************************************)
EXTENDS Integers, Sequences, FiniteSets, TLC

VARIABLES
    phase,      \* which step of the modelled call the program is at
    doc,        \* render_node: the tags, texts and src values of the chapter
    stack,      \* render_node: the open calls, outermost first
    images,     \* render_node: the `images` vector
    nodes,      \* render_node: number of nodes visited so far
    lastText,   \* render_node: the last text node visited and what it returned
    lastElem,   \* render_node: the last element returned from and what it returned
    docImgs,    \* the src of every img element met so far, in document order
    result,     \* the string returned by the outermost render_node call
    archive,    \* the EPUB file: its mimetype, container and package entries
    container,  \* Epub::new: what parse_container returned
    package,    \* Epub::new: what parse_package returned
    epub,       \* the Epub facade: its manifest and spine
    lastRender, \* the last call of Epub::render and how it ended
    book,       \* ui::run: for each chapter of the spine, its lines and images
    progress,   \* ui::run: the Progress restored from the history file, if any
    overflow_checks, \* whether the build panics on integer overflow
    ui,         \* ui::run: its local variables
    fault,      \* ui::run: the computations evaluated out of their range so far
    chapter_arg \* ui::run: the last chapter index passed to the Epub facade

renderVars == <<doc, stack, images, nodes, lastText, lastElem, docImgs, result>>
epubVars == <<archive, container, package, epub, lastRender>>
uiVars == <<book, progress, overflow_checks, ui, fault, chapter_arg>>
vars == <<phase, renderVars, epubVars, uiVars>>

(***************************************************************************)
(* Bounds of the explored inputs.                                          *)
(***************************************************************************)
MaxDepth == 3
MaxNodes == 4

NoAttr == "#absent"

\* ------------------------------------------------------------------------
\* Strings.  A string is a sequence of tokens: a character, the escape
\* sequence that switches a set of terminal attributes on, the escape
\* sequence that resets them, or the digits of an image number.
\* ------------------------------------------------------------------------
Ch(c)     == [k |-> "ch",    c |-> c,  s |-> {}, n |-> 0]
Esc(s)    == [k |-> "esc",   c |-> "", s |-> s,  n |-> 0]
Reset     == [k |-> "reset", c |-> "", s |-> {}, n |-> 0]
ImgTok(n) == [k |-> "img",   c |-> "", s |-> {}, n |-> n]

SP == Ch(" ")
NL == Ch("NL")
X  == Ch("x")

IsWhitespace(t) == t.k = "ch" /\ t.c \in {" ", "NL"}

RECURSIVE TrimStart(_)
TrimStart(s) ==
    IF s = <<>> THEN <<>>
    ELSE IF IsWhitespace(Head(s)) THEN TrimStart(Tail(s)) ELSE s

RECURSIVE TrimEnd(_)
TrimEnd(s) ==
    IF s = <<>> THEN <<>>
    ELSE IF IsWhitespace(s[Len(s)]) THEN TrimEnd(SubSeq(s, 1, Len(s) - 1)) ELSE s

\* str::trim
Trim(s) == TrimEnd(TrimStart(s))

\* ContentStyle::apply(..).to_string(): the attributes are switched on before
\* the content and reset after it; a style with no attribute writes the
\* content alone.
Styled(content, style) ==
    IF style = {} THEN content ELSE <<Esc(style)>> \o content \o <<Reset>>

\* ------------------------------------------------------------------------
\* render_node
\* ------------------------------------------------------------------------
RenderAttributesDefault ==
    [body |-> FALSE, paragraph |-> FALSE, link |-> FALSE, bold |-> FALSE,
     italic |-> FALSE, underline |-> FALSE, nodisplay |-> FALSE, heading |-> FALSE]

BoldTags      == {"b", "strong"}
ItalicTags    == {"i", "em"}
NoDisplayTags == {"script", "style"}
HeadingTags   == {"h1", "h2", "h3", "h4", "h5", "h6"}

\* the attributes an element hands to its children: the match on the tag name
ElementAttributes(a, tag) ==
    CASE tag = "body"          -> [a EXCEPT !.body = TRUE]
      [] tag = "p"             -> [a EXCEPT !.paragraph = TRUE]
      [] tag = "a"             -> [a EXCEPT !.link = TRUE]
      [] tag \in BoldTags      -> [a EXCEPT !.bold = TRUE]
      [] tag \in ItalicTags    -> [a EXCEPT !.italic = TRUE]
      [] tag = "u"             -> [a EXCEPT !.underline = TRUE]
      [] tag \in NoDisplayTags -> [a EXCEPT !.nodisplay = TRUE]
      [] tag \in HeadingTags   -> [a EXCEPT !.heading = TRUE]
      [] OTHER                 -> a

\* `newline`: the element starts a new block
ElementNewline(a, tag) ==
    tag \in ({"p", "div"} \cup HeadingTags) /\ ~a.paragraph

\* the style of a displayed text node
TextStyle(a) ==
    (IF a.heading THEN {"bold", "reverse"} ELSE {})
    \cup (IF a.italic THEN {"italic"} ELSE {})
    \cup (IF a.bold THEN {"bold"} ELSE {})
    \cup (IF a.underline \/ a.link THEN {"underlined"} ELSE {})

TextShownIgnoringNodisplay(a) == a.body /\ (a.paragraph \/ a.heading)

\* the text node is displayed
TextShown(a) == a.body /\ ~a.nodisplay /\ (a.paragraph \/ a.heading)

\* what a text node pushes to `output`
TextOutput(a, text) ==
    IF TextShown(a) THEN Styled(text, TextStyle(a)) ELSE <<>>

ImgNumberAfterPush(imgs) == Len(imgs) + 1

\* the number an img element prints in its placeholder
ImgNumber(imgs) == Len(imgs)

\* the image vector after an img element
ImgPush(imgs, src) == Append(imgs, src)

\* what an element pushes to `output` before its children are rendered
ElementOutput(tag, imgs) ==
    (IF tag = "img" THEN Styled(<<ImgTok(ImgNumber(imgs))>>, {"reverse"}) ELSE <<>>)
    \o (IF tag = "br" THEN <<NL>> ELSE <<>>)

AssembleAlwaysBreak(newline, output, buf) ==
    IF newline THEN output \o Trim(buf) \o <<NL, NL>> ELSE output \o buf

\* the string a call returns, from what it pushed itself and from `buf`,
\* the concatenation of what its children returned
Assemble(newline, output, buf) ==
    IF newline
    THEN output \o Trim(buf) \o (IF Trim(buf) # <<>> THEN <<NL, NL>> ELSE <<>>)
    ELSE output \o buf

Frame(tag, a, newline, output) ==
    [tag |-> tag, attrs |-> a, newline |-> newline, output |-> output,
     buf |-> <<>>, textLast |-> FALSE, elements |-> 0]

Range(f) == {f[i] : i \in DOMAIN f}

Top == stack[Len(stack)]

\* the tags of the open elements, outermost first (the document root left out)
OpenTags == [i \in 1..(Len(stack) - 1) |-> stack[i + 1].tag]

\* `stack` with `s` appended to the buf of its last call
PushToTop(st, s, isText) ==
    [st EXCEPT ![Len(st)].buf = @ \o s, ![Len(st)].textLast = isText]

\* the variables of Epub::new and Epub::render when no archive is open
EpubIdle ==
    /\ archive = <<>>
    /\ container = <<>>
    /\ package = <<>>
    /\ epub = <<>>
    /\ lastRender = <<>>

\* the variables of ui::run when no pager runs
UiIdle ==
    /\ book = <<>>
    /\ progress = <<>>
    /\ overflow_checks = FALSE
    /\ ui = <<>>
    /\ fault = {}
    /\ chapter_arg = -1

NoText == [seen |-> FALSE, anc |-> <<>>, text |-> <<>>, out |-> <<>>]
NoElem == [seen |-> FALSE, tag |-> "", anc |-> <<>>, own |-> <<>>, kids |-> <<>>, out |-> <<>>]

\* the image vector a chapter's walk starts with
ChapterImages == <<>>

RenderInit(docs) ==
    /\ phase = "walk"
    /\ doc \in docs
    /\ stack = <<Frame("#root", RenderAttributesDefault, FALSE, <<>>)>>
    /\ images = ChapterImages
    /\ nodes = 0
    /\ lastText = NoText
    /\ lastElem = NoElem
    /\ docImgs = <<>>
    /\ result = <<>>
    /\ EpubIdle
    /\ UiIdle

\* render_node is called on an element: the match on its tag, before the
\* loop over its children
EnterElement(tag, src) ==
    /\ phase = "walk"
    /\ nodes < MaxNodes
    /\ Len(stack) <= MaxDepth
    /\ Len(stack) = 1 => Top.elements = 0   \* a document has one root element
    /\ nodes' = nodes + 1
    /\ IF tag = "img" /\ src = NoAttr
       THEN \* node.attribute("src").unwrap() on None
            /\ phase' = "panic"
            /\ UNCHANGED <<stack, images, docImgs>>
       ELSE /\ phase' = phase
            /\ stack' = Append([stack EXCEPT ![1].elements = IF Len(stack) = 1 THEN 1 ELSE @],
                   Frame(tag, ElementAttributes(Top.attrs, tag),
                         ElementNewline(Top.attrs, tag),
                         ElementOutput(tag, images)))
            /\ images' = IF tag = "img" THEN ImgPush(images, src) ELSE images
            /\ docImgs' = IF tag = "img" THEN Append(docImgs, src) ELSE docImgs
    /\ UNCHANGED <<doc, lastText, lastElem, result, epubVars, uiVars>>

\* render_node is called on a text node and returns
TextNode(text) ==
    /\ phase = "walk"
    /\ nodes < MaxNodes
    /\ Len(stack) > 1                       \* text is inside the root element
    /\ ~Top.textLast                        \* adjacent text is one node
    /\ nodes' = nodes + 1
    /\ LET out == Assemble(FALSE, TextOutput(Top.attrs, text), <<>>)
       IN  /\ stack' = PushToTop(stack, out, TRUE)
           /\ lastText' = [seen |-> TRUE, anc |-> OpenTags, text |-> text, out |-> out]
    /\ UNCHANGED <<phase, doc, images, lastElem, docImgs, result, epubVars, uiVars>>

\* as ExitElement, with the attributes shared between the calls instead of
\* copied into each: the caller goes on with what the callee set
ExitElementSharedAttributes ==
    /\ phase = "walk"
    /\ Len(stack) > 1
    /\ LET f   == Top
           out == Assemble(f.newline, f.output, f.buf)
           up  == SubSeq(stack, 1, Len(stack) - 1)
       IN  /\ stack' = [PushToTop(up, out, FALSE) EXCEPT ![Len(up)].attrs = f.attrs]
           /\ lastElem' = [seen |-> TRUE, tag |-> f.tag,
                           anc |-> SubSeq(OpenTags, 1, Len(OpenTags) - 1),
                           own |-> f.output, kids |-> f.buf, out |-> out]
    /\ UNCHANGED <<phase, doc, images, nodes, lastText, docImgs, result, epubVars, uiVars>>

\* render_node is called on a comment or a processing instruction and
\* returns: no arm of the match pushes anything for it
OtherNode ==
    /\ phase = "walk"
    /\ nodes < MaxNodes
    /\ nodes' = nodes + 1
    /\ stack' = PushToTop(stack, Assemble(FALSE, <<>>, <<>>), FALSE)
    /\ UNCHANGED <<phase, doc, images, lastText, lastElem, docImgs, result, epubVars, uiVars>>

\* the loop over the children of an element is over: the call returns and
\* the caller pushes what it returned to its buf
ExitElement ==
    /\ phase = "walk"
    /\ Len(stack) > 1
    /\ LET f   == Top
           out == Assemble(f.newline, f.output, f.buf)
           up  == SubSeq(stack, 1, Len(stack) - 1)
       IN  /\ stack' = PushToTop(up, out, FALSE)
           /\ lastElem' = [seen |-> TRUE, tag |-> f.tag,
                           anc |-> SubSeq(OpenTags, 1, Len(OpenTags) - 1),
                           own |-> f.output, kids |-> f.buf, out |-> out]
    /\ UNCHANGED <<phase, doc, images, nodes, lastText, docImgs, result, epubVars, uiVars>>

\* the outermost call, on the document root, returns
ExitRoot ==
    /\ phase = "walk"
    /\ Len(stack) = 1
    /\ Top.elements = 1
    /\ result' = Assemble(Top.newline, Top.output, Top.buf)
    /\ phase' = "done"
    /\ UNCHANGED <<doc, stack, images, nodes, lastText, lastElem, docImgs, epubVars, uiVars>>

\* The chapters walked.  A chapter draws its nodes from a vocabulary: its
\* tags, its texts and the src values of its img elements.
\* Style: one tag of each arm of the match and one the match does not name;
\* the six vocabularies together hold every tag the match names but br and
\* img.  Block: the tags that decide block assembly (one heading tag in each
\* vocabulary), texts with and without surrounding whitespace, img elements
\* with and without a src.
StyleDoc(bold, italic, nodisplay, heading) ==
    [tags  |-> {"body", "p", "div", "a", "u", "span", bold, italic, nodisplay, heading},
     texts |-> {<<X>>},
     srcs  |-> {NoAttr}]

StyleDocs ==
    {StyleDoc("b", "i", "script", "h1"),      StyleDoc("strong", "em", "style", "h2"),
     StyleDoc("b", "em", "script", "h3"),     StyleDoc("strong", "i", "style", "h4"),
     StyleDoc("b", "i", "style", "h5"),       StyleDoc("strong", "em", "script", "h6")}

BlockDoc(heading) ==
    [tags  |-> {"body", "p", "div", "br", "img", "span", heading},
     texts |-> {<<SP, X, SP>>, <<SP>>},
     srcs  |-> {"a.png", "b.png", NoAttr}]

BlockDocs == {BlockDoc(h) : h \in HeadingTags}

RenderNext ==
    \/ \E tag \in doc.tags, src \in doc.srcs : EnterElement(tag, src)
    \/ \E text \in doc.texts : TextNode(text)
    \/ OtherNode
    \/ ExitElement
    \/ ExitRoot

SpecStyle == RenderInit(StyleDocs) /\ [][RenderNext]_vars
SpecBlock == RenderInit(BlockDocs) /\ [][RenderNext]_vars


\* ------------------------------------------------------------------------
\* epub.rs: Epub::new, parse_container, parse_package, Epub::render
\*
\* A path or a file content is a sequence of characters; an attribute is
\* present with a value or absent.
\* ------------------------------------------------------------------------
MaxPathLen == 5
MaxItems == 2
MaxRefs == 2
MaxIndex == 3

Attr(v)    == [has |-> TRUE, v |-> v]
AbsentStr  == [has |-> FALSE, v |-> ""]
AbsentPath == [has |-> FALSE, v |-> <<>>]

\* str::split(sep)
RECURSIVE Split(_, _)
Split(s, sep) ==
    IF \E i \in 1..Len(s) : s[i] = sep
    THEN LET i == CHOOSE i \in 1..Len(s) : s[i] = sep /\ \A j \in 1..(i - 1) : s[j] # sep
         IN  <<SubSeq(s, 1, i - 1)>> \o Split(SubSeq(s, i + 1, Len(s)), sep)
    ELSE <<s>>

\* <[T]>::split_last, with the unwrap_or default for an empty slice
SplitLast(v) ==
    IF v = <<>> THEN [last |-> <<>>, init |-> <<>>]
    ELSE [last |-> v[Len(v)], init |-> SubSeq(v, 1, Len(v) - 1)]

\* <[&str]>::join(sep)
RECURSIVE Join(_, _)
Join(v, sep) ==
    IF v = <<>> THEN <<>>
    ELSE IF Len(v) = 1 THEN v[1]
    ELSE v[1] \o sep \o Join(Tail(v), sep)

\* the base path parse_container derives from the package path
BasePath(package_path) ==
    Join(SplitLast(Split(package_path, "/")).init, <<>>)

Failed(why) == [status |-> "err", why |-> why]
Panicked(why) == [status |-> "panic", why |-> why]

\* parse_container.  xml: whether it parses, whether
\* container/rootfiles/rootfile is found, the full-path attribute of that node
parse_container(xml) ==
    IF ~xml.wellformed THEN Failed("container: xml")
    ELSE IF ~xml.rootfile THEN Failed("unable to find rootfile node")
    ELSE IF ~xml.full_path.has THEN Failed("rootfile node missing full-path attribute")
    ELSE [status |-> "ok",
          package_path |-> xml.full_path.v,
          base_path |-> BasePath(xml.full_path.v)]

\* the path the manifest records for an item
ManifestPath(base_path, href) ==
    IF base_path # <<>> THEN base_path \o <<"/">> \o href ELSE href

\* collecting the (id, path) pairs into the HashMap: a later pair replaces an
\* earlier one with the same id
RECURSIVE CollectManifest(_, _, _)
CollectManifest(items, base_path, m) ==
    IF items = <<>> THEN m
    ELSE LET n == Head(items)
             k == n.id.v
             m2 == [x \in DOMAIN m \cup {k} |->
                        IF x = k THEN ManifestPath(base_path, n.href.v) ELSE m[x]]
         IN  CollectManifest(Tail(items), base_path, IF n.tag = "item" THEN m2 ELSE m)

SpineIncludesUnlessNo(n) ==
    n.tag = "itemref" /\ (IF n.linear.has THEN n.linear.v # "no" ELSE TRUE)

\* the filter of the spine's children
SpineIncludes(n) ==
    n.tag = "itemref" /\ (IF n.linear.has THEN n.linear.v = "yes" ELSE TRUE)

\* the idref of the children the filter keeps, in document order
RECURSIVE SpineRefs(_)
SpineRefs(kids) ==
    IF kids = <<>> THEN <<>>
    ELSE (IF SpineIncludes(Head(kids)) THEN <<Head(kids).idref.v>> ELSE <<>>)
         \o SpineRefs(Tail(kids))

\* parse_package.  xml: whether it parses, the children of package/manifest
\* and of package/spine when those nodes are found
parse_package(xml, base_path) ==
    IF ~xml.wellformed THEN Failed("package: xml")
    ELSE IF ~xml.manifest.has THEN Failed("unable to find manifest node")
    ELSE IF \E i \in DOMAIN xml.manifest.kids :
                /\ xml.manifest.kids[i].tag = "item"
                /\ ~(xml.manifest.kids[i].id.has /\ xml.manifest.kids[i].href.has)
         THEN Panicked("item: unwrap on a missing id or href")
    ELSE IF ~xml.spine.has THEN Failed("unable to find spine node")
    ELSE IF \E i \in DOMAIN xml.spine.kids :
                SpineIncludes(xml.spine.kids[i]) /\ ~xml.spine.kids[i].idref.has
         THEN Panicked("itemref: unwrap on a missing idref")
    ELSE [status |-> "ok",
          manifest |-> CollectManifest(xml.manifest.kids, base_path, <<>>),
          spine |-> SpineRefs(xml.spine.kids)]

MimeType == <<Ch("application/epub+zip")>>

NoResult == [status |-> "none"]

\* Epub::new: how it ends, with what parse_container and parse_package
\* returned on the way
Epub_new(a) ==
    LET c == parse_container(a.container.xml)
        p == parse_package(a.package, c.base_path)
        end(st, cc, pp) == [status |-> st, container |-> cc, package |-> pp]
    IN  IF ~a.zip THEN end("err", NoResult, NoResult)
        ELSE IF ~a.mimetype.has THEN end("err", NoResult, NoResult)
        ELSE IF Trim(a.mimetype.v) # MimeType THEN end("err", NoResult, NoResult)
        ELSE IF ~a.container.has THEN end("err", NoResult, NoResult)
        ELSE IF c.status # "ok" THEN end("err", c, NoResult)
        ELSE IF c.package_path # a.package_name THEN end("err", c, NoResult)
        ELSE end(p.status, c, p)

EpubInit(archives) ==
    /\ phase = "start"
    /\ archive \in archives
    /\ container = NoResult
    /\ package = NoResult
    /\ epub = NoResult
    /\ lastRender = NoResult
    /\ doc = <<>>
    /\ stack = <<>>
    /\ images = <<>>
    /\ nodes = 0
    /\ lastText = NoText
    /\ lastElem = NoElem
    /\ docImgs = <<>>
    /\ result = <<>>
    /\ UiIdle

EpubNew ==
    /\ phase = "start"
    /\ LET r == Epub_new(archive)
       IN  /\ container' = r.container
           /\ package' = r.package
           /\ epub' = IF r.status = "ok"
                      THEN [status |-> "ok", manifest |-> r.package.manifest,
                            spine |-> r.package.spine]
                      ELSE NoResult
           /\ phase' = CASE r.status = "ok"    -> "open"
                         [] r.status = "err"   -> "failed"
                         [] r.status = "panic" -> "panic"
    /\ UNCHANGED <<archive, lastRender, renderVars, uiVars>>

\* Epub::render: how it ends
Epub_render(e, a, index) ==
    IF index >= Len(e.spine) THEN "panic"                       \* self.spine[index]
    ELSE IF e.spine[index + 1] \notin DOMAIN e.manifest THEN "panic"   \* self.manifest[id]
    ELSE IF e.manifest[e.spine[index + 1]] \notin a.chapters THEN "err"
    ELSE "ok"

Render(index) ==
    /\ phase = "open"
    /\ LET st == Epub_render(epub, archive, index)
       IN  /\ lastRender' = [status |-> st, index |-> index]
           /\ phase' = IF st = "panic" THEN "panic" ELSE "open"
    /\ UNCHANGED <<archive, container, package, epub, renderVars, uiVars>>

\* The archives opened.
RECURSIVE SeqsUpTo(_, _)
SeqsUpTo(S, n) ==
    IF n = 0 THEN {<<>>}
    ELSE LET shorter == SeqsUpTo(S, n - 1)
         IN  shorter \cup {Append(s, x) : s \in shorter, x \in S}

\* the full-path values: relative paths, no empty segment
Paths ==
    {q \in SeqsUpTo({"a", "b", "/"}, MaxPathLen) :
        /\ q # <<>>
        /\ q[1] # "/"
        /\ q[Len(q)] # "/"
        /\ \A i \in 1..(Len(q) - 1) : ~(q[i] = "/" /\ q[i + 1] = "/")}

ContainerDocs ==
    {[wellformed |-> FALSE, rootfile |-> FALSE, full_path |-> AbsentPath],
     [wellformed |-> TRUE,  rootfile |-> FALSE, full_path |-> AbsentPath],
     [wellformed |-> TRUE,  rootfile |-> TRUE,  full_path |-> AbsentPath]}
    \cup {[wellformed |-> TRUE, rootfile |-> TRUE, full_path |-> Attr(q)] : q \in Paths}

Items ==
    [tag : {"item", "meta"}, id : {Attr("c1"), Attr("c2"), AbsentStr},
     href : {Attr(<<"h">>), AbsentPath}]

ItemRefs ==
    [tag : {"itemref", "meta"}, idref : {Attr("c1"), Attr("c2"), AbsentStr},
     linear : {Attr("yes"), Attr("no"), Attr("maybe"), AbsentStr}]

Node(kids) == [has |-> TRUE, kids |-> kids]
NoNode == [has |-> FALSE, kids |-> <<>>]

Item(id, href) == [tag |-> "item", id |-> Attr(id), href |-> Attr(href)]
ItemRef(idref) == [tag |-> "itemref", idref |-> Attr(idref), linear |-> AbsentStr]

PlainManifest == Node(<<Item("c1", <<"h">>)>>)
PlainSpine == Node(<<ItemRef("c1"), ItemRef("c2")>>)

PackageDocs ==
    {[wellformed |-> FALSE, manifest |-> NoNode, spine |-> NoNode]}
    \cup {[wellformed |-> TRUE, manifest |-> m, spine |-> PlainSpine] :
            m \in {NoNode} \cup {Node(k) : k \in SeqsUpTo(Items, MaxItems)}}
    \cup {[wellformed |-> TRUE, manifest |-> PlainManifest, spine |-> sp] :
            sp \in {NoNode} \cup {Node(k) : k \in SeqsUpTo(ItemRefs, MaxRefs)}}

PlainArchive ==
    [zip |-> TRUE,
     mimetype |-> [has |-> TRUE, v |-> MimeType],
     container |-> [has |-> TRUE,
                    xml |-> [wellformed |-> TRUE, rootfile |-> TRUE,
                             full_path |-> Attr(<<"a", "/", "b">>)]],
     package_name |-> <<"a", "/", "b">>,
     package |-> [wellformed |-> TRUE, manifest |-> PlainManifest, spine |-> PlainSpine],
     chapters |-> {<<"h">>, <<"a", "/", "h">>}]

Archives ==
    {[PlainArchive EXCEPT !.zip = FALSE],
     [PlainArchive EXCEPT !.container = [has |-> FALSE, xml |-> @.xml]],
     [PlainArchive EXCEPT !.package_name = <<"b">>]}
    \cup {[PlainArchive EXCEPT !.mimetype = m] :
            m \in {[has |-> FALSE, v |-> <<>>], [has |-> TRUE, v |-> <<Ch("text/plain")>>],
                   [has |-> TRUE, v |-> MimeType \o <<NL>>]}}
    \cup {[PlainArchive EXCEPT !.container.xml = c,
                               !.package_name = IF c.full_path.has THEN c.full_path.v ELSE @] :
            c \in ContainerDocs}
    \cup {[PlainArchive EXCEPT !.package = d, !.chapters = ch,
                               !.package_name = q, !.container.xml.full_path = Attr(q)] :
            d \in PackageDocs, ch \in {{}, PlainArchive.chapters},
            q \in {<<"b">>, <<"a", "/", "b">>}}

EpubNext ==
    \/ EpubNew
    \/ \E index \in 0..MaxIndex : Render(index)

SpecEpub == EpubInit(Archives) /\ [][EpubNext]_vars

\* ------------------------------------------------------------------------
\* ui.rs: run, the pager loop
\*
\* A usize is held as an integer n: n >= 0 is the value n, n < 0 is the value
\* 2^64 + n (what a subtraction below zero wraps to when the build does not
\* check overflow).  Sums and differences of such integers are the wrapped
\* sums and differences; comparisons and divisions go through the operators
\* below.
\* ------------------------------------------------------------------------
MaxChapters == 2
MaxLines == 2
MaxImages == 2
MaxRows == 2
LineCap == 4

\* a < b as usize
ULt(a, b) ==
    IF a >= 0 /\ b >= 0 THEN a < b
    ELSE IF a >= 0 THEN TRUE
    ELSE IF b >= 0 THEN FALSE
    ELSE a < b

\* 2^64 modulo m, by squaring 2 six times
Square(x, m) == (x * x) % m
Pow64Mod(m) == Square(Square(Square(Square(Square(Square(2 % m, m), m), m), m), m), m)

\* (v / rows) * rows as usize, rows > 0
FloorToPage(v, rows) ==
    IF v >= 0 THEN (v \div rows) * rows
    ELSE v - ((Pow64Mod(rows) + v) % rows)

\* Epub::chapter(index): the lines and the images of the chapter, or an error
\* for an index outside the spine
Epub_chapter(index) ==
    IF index >= 0 /\ index < Len(book)
    THEN [ok |-> TRUE, text |-> book[index + 1].lines, images |-> book[index + 1].images]
    ELSE [ok |-> FALSE, text |-> 0, images |-> 0]

\* how a step of run ends: its locals, where it goes on, the computations it
\* evaluated out of range, the chapter index it passed to the facade
Step(u, ph, flt, arg) == [ui |-> u, phase |-> ph, fault |-> flt, arg |-> arg]
Go(u) == Step(u, "draw", {}, chapter_arg)
Panic(f) == Step(ui, "panic", {f}, chapter_arg)

\* (text, images) = epub.chapter(index)?, then `then` on the new locals
Load(u, index, flt) ==
    IF Epub_chapter(index).ok
    THEN Step([u EXCEPT !.text = Epub_chapter(index).text, !.images = Epub_chapter(index).images],
              "draw", flt, index)
    ELSE Step(u, "failed", flt, index)

\* current_line = ((text.len() - 1) / rows) * rows
ToLastPage(st) ==
    IF st.phase # "draw" THEN st
    ELSE IF st.ui.text = 0 /\ overflow_checks THEN Panic("text.len() - 1")
    ELSE IF st.ui.rows = 0 THEN Panic("/ rows")
    ELSE [st EXCEPT !.ui.current_line = FloorToPage(st.ui.text - 1, st.ui.rows),
                    !.fault = @ \cup (IF st.ui.text = 0 THEN {"text.len() - 1"} ELSE {})]

\* if current_chapter < epub.len() - 1 { current_chapter += 1; current_line = 0; load }
NextChapter(u, flt) ==
    IF Len(book) = 0 /\ overflow_checks THEN Panic("epub.len() - 1")
    ELSE LET f == flt \cup (IF Len(book) = 0 THEN {"epub.len() - 1"} ELSE {})
         IN  IF ULt(u.current_chapter, Len(book) - 1)
             THEN Load([u EXCEPT !.current_chapter = @ + 1, !.current_line = 0],
                       u.current_chapter + 1, f)
             ELSE Step(u, "draw", f, chapter_arg)

OnPageDown ==
    IF ULt(ui.text, ui.current_line) /\ overflow_checks
    THEN Panic("text.len() - current_line")
    ELSE LET f == IF ULt(ui.text, ui.current_line) THEN {"text.len() - current_line"} ELSE {}
         IN  IF ULt(ui.rows, ui.text - ui.current_line)
             THEN Step([ui EXCEPT !.current_line = @ + ui.rows], "draw", f, chapter_arg)
             ELSE NextChapter(ui, f)

OnPageUp ==
    IF ~ULt(ui.current_line, ui.rows)
    THEN Go([ui EXCEPT !.current_line = @ - ui.rows])
    ELSE IF ui.current_line = 0 /\ ui.current_chapter > 0
    THEN ToLastPage(Load([ui EXCEPT !.current_chapter = @ - 1], ui.current_chapter - 1, {}))
    ELSE Go([ui EXCEPT !.current_line = 0])

OnDown ==
    IF ui.text = 0 /\ overflow_checks THEN Panic("text.len() - 1")
    ELSE LET f == IF ui.text = 0 THEN {"text.len() - 1"} ELSE {}
         IN  IF ULt(ui.current_line, ui.text - 1)
             THEN Step([ui EXCEPT !.current_line = @ + 1], "draw", f, chapter_arg)
             ELSE Step(ui, "draw", f, chapter_arg)

OnUp ==
    IF ui.current_line # 0 THEN Go([ui EXCEPT !.current_line = @ - 1]) ELSE Go(ui)

OnRight == NextChapter(ui, {})

OnLeft ==
    IF ui.current_chapter > 0
    THEN Load([ui EXCEPT !.current_chapter = @ - 1, !.current_line = 0],
              ui.current_chapter - 1, {})
    ELSE Go(ui)

OnHome == Go([ui EXCEPT !.current_line = 0])

OnEnd == ToLastPage(Go(ui))

\* the `i` key.  sel is what the line read at the prompt parses to (-1: not
\* a number); extracted is whether epub.image(current_chapter, ..) returned
\* the path of the extracted file.
OnImage(sel, extracted) ==
    LET open == Step(ui, IF extracted THEN "draw" ELSE "failed", {}, ui.current_chapter)
    IN  IF ui.images = 1 THEN open
        ELSE IF ui.images # 0
        THEN IF sel >= 0 /\ sel < ui.images
             THEN open
             ELSE Go([ui EXCEPT !.status = "Error: invalid image"])
        ELSE Go([ui EXCEPT !.status = "Error: no images"])

Apply(st) ==
    /\ st.ui.current_line \in (0 - LineCap)..LineCap
    /\ ui' = st.ui
    /\ phase' = st.phase
    /\ fault' = fault \cup st.fault
    /\ chapter_arg' = st.arg
    /\ UNCHANGED <<book, progress, overflow_checks, renderVars, epubVars>>

NoProgress == [has |-> FALSE, chapter |-> 0, line |-> 0]

\* run up to the loop: the position restored or (0, 0), the first chapter
\* loaded, the terminal size read
UiRun(cols, rows) ==
    /\ phase = "start"
    /\ LET st == Load([current_chapter |-> IF progress.has THEN progress.chapter ELSE 0,
                       current_line |-> IF progress.has THEN progress.line ELSE 0,
                       status |-> "", text |-> 0, images |-> 0, cols |-> 0, rows |-> 0],
                      IF progress.has THEN progress.chapter ELSE 0, {})
       IN  Apply(IF st.phase = "draw"
                 THEN [st EXCEPT !.ui.cols = cols, !.ui.rows = rows]
                 ELSE st)

\* the loop body up to read(): the page is drawn
Draw ==
    /\ phase = "draw"
    /\ Apply(IF ui.rows = 0 THEN Panic("/ rows")
             ELSE IF ui.cols < 5 /\ overflow_checks THEN Panic("cols - 5")
             ELSE Step([ui EXCEPT !.status = ""], "read",
                       IF ui.cols < 5 THEN {"cols - 5"} ELSE {}, chapter_arg))

KeyQuit     == phase = "read" /\ Apply(Step(ui, "quit", {}, chapter_arg))
KeyPageDown == phase = "read" /\ Apply(OnPageDown)
KeyPageUp   == phase = "read" /\ Apply(OnPageUp)
KeyDown     == phase = "read" /\ Apply(OnDown)
KeyUp       == phase = "read" /\ Apply(OnUp)
KeyRight    == phase = "read" /\ Apply(OnRight)
KeyLeft     == phase = "read" /\ Apply(OnLeft)
KeyHome     == phase = "read" /\ Apply(OnHome)
KeyEnd      == phase = "read" /\ Apply(OnEnd)
KeyImage(sel, extracted) == phase = "read" /\ Apply(OnImage(sel, extracted))
\* any other key, a key with Control or Alt, any other event
Ignored     == phase = "read" /\ Apply(Go(ui))
Resize(x, y) == phase = "read" /\ Apply(Go([ui EXCEPT !.cols = x, !.rows = y]))

Books == UNION {[1..n -> [lines : 0..MaxLines, images : 0..MaxImages]] : n \in 0..MaxChapters}

Progresses ==
    {NoProgress} \cup [has : {TRUE}, chapter : 0..MaxChapters, line : 0..MaxLines]

Cols == {4, 80}

UiInit ==
    /\ phase = "start"
    /\ book \in Books
    /\ progress \in Progresses
    /\ overflow_checks \in BOOLEAN
    /\ ui = <<>>
    /\ fault = {}
    /\ chapter_arg = -1
    /\ doc = <<>>
    /\ stack = <<>>
    /\ images = <<>>
    /\ nodes = 0
    /\ lastText = NoText
    /\ lastElem = NoElem
    /\ docImgs = <<>>
    /\ result = <<>>
    /\ EpubIdle

UiNext ==
    \/ \E x \in Cols, y \in 0..MaxRows : UiRun(x, y)
    \/ Draw
    \/ KeyQuit
    \/ KeyPageDown
    \/ KeyPageUp
    \/ KeyDown
    \/ KeyUp
    \/ KeyRight
    \/ KeyLeft
    \/ KeyHome
    \/ KeyEnd
    \/ \E sel \in -1..MaxImages, extracted \in BOOLEAN : KeyImage(sel, extracted)
    \/ Ignored
    \/ \E x \in Cols, y \in 0..MaxRows : Resize(x, y)

SpecUi == UiInit /\ [][UiNext]_vars

\* ------------------------------------------------------------------------
\* Properties of render_node
\* ------------------------------------------------------------------------
\* `part` occurs in `s` as a run of consecutive tokens
Contains(s, part) ==
    \E i \in 0..(Len(s) - Len(part)) : SubSeq(s, i + 1, i + Len(part)) = part

\* everything render_node has emitted so far, in document order
RECURSIVE EmittedFrom(_)
EmittedFrom(i) ==
    IF i > Len(stack) THEN <<>>
    ELSE stack[i].output \o stack[i].buf \o EmittedFrom(i + 1)

Emitted == IF phase = "done" THEN result ELSE EmittedFrom(1)

\* the numbers of the image placeholders of a string, in order
RECURSIVE ImgNumbers(_)
ImgNumbers(s) ==
    IF s = <<>> THEN <<>>
    ELSE (IF Head(s).k = "img" THEN <<Head(s).n>> ELSE <<>>) \o ImgNumbers(Tail(s))

C2_Displayable(anc) ==
    /\ "body" \in Range(anc)
    /\ Range(anc) \cap {"script", "style"} = {}
    /\ Range(anc) \cap {"p", "h1", "h2", "h3", "h4", "h5", "h6"} # {}

\* C2: a text node contributes its text iff it has a body ancestor, no
\* script or style ancestor, and a p or h1..h6 ancestor; otherwise it
\* contributes nothing at all.
C2_TextShownIff ==
    lastText.seen =>
        IF C2_Displayable(lastText.anc)
        THEN Contains(lastText.out, lastText.text)
        ELSE lastText.out = <<>>

\* a text node under body and p that was displayed
C2_Witness ==
    /\ lastText.seen
    /\ {"body", "p"} \subseteq Range(lastText.anc)
    /\ lastText.out # <<>>

\* C3: the image list is the src of every img element in document order,
\* and the placeholders emitted so far carry 0, 1, 2, ... in that order, so
\* each number is the index of its image in the list.
C3_ImageNumbering ==
    /\ images = docImgs
    /\ ImgNumbers(Emitted) = [k \in 1..Len(images) |-> k - 1]

\* a chapter with two different images has been rendered
C3_Witness ==
    /\ phase = "done"
    /\ Len(images) = 2
    /\ images[1] # images[2]

C8_StartsBlock(e) ==
    /\ e.tag \in {"p", "div", "h1", "h2", "h3", "h4", "h5", "h6"}
    /\ "p" \notin Range(e.anc)

C8_Block(e) ==
    e.out = Trim(e.kids) \o (IF Trim(e.kids) # <<>> THEN <<NL, NL>> ELSE <<>>)

\* C8 as claimed: an element that starts a block contributes its children's
\* output trimmed, then two newlines if that is not empty; any other element
\* contributes its children's output verbatim.
C8_Original ==
    lastElem.seen =>
        IF C8_StartsBlock(lastElem) THEN C8_Block(lastElem)
        ELSE lastElem.out = lastElem.kids

\* what an element emits itself: a line break for br, a placeholder for img
C8_OwnToken(e, own) ==
    CASE e.tag = "br"  -> own = <<NL>>
      [] e.tag = "img" -> \E n \in 0..MaxNodes : own = <<Esc({"reverse"}), ImgTok(n), Reset>>
      [] OTHER         -> own = <<>>

\* C8 amended: an element that starts a block contributes its children's
\* output trimmed, then two newlines if that is not empty; any other element
\* contributes what it emits itself (a line break for br, the placeholder
\* for img, nothing otherwise) followed by its children's output verbatim.
C8_Amended ==
    lastElem.seen =>
        IF C8_StartsBlock(lastElem) THEN C8_Block(lastElem)
        ELSE LET n == Len(lastElem.out) - Len(lastElem.kids)
             IN  /\ n >= 0
                 /\ SubSeq(lastElem.out, n + 1, Len(lastElem.out)) = lastElem.kids
                 /\ C8_OwnToken(lastElem, SubSeq(lastElem.out, 1, n))

\* a block whose children's output lost whitespace at both ends, and a p
\* inside an open p whose output was kept as it was
C8_Witness ==
    /\ lastElem.seen
    /\ lastElem.tag = "p"
    /\ "p" \in Range(lastElem.anc)
    /\ lastElem.kids = <<SP, X, SP>>
    /\ lastElem.out = lastElem.kids

C9_Style(anc) ==
    (IF Range(anc) \cap {"b", "strong", "h1", "h2", "h3", "h4", "h5", "h6"} # {}
        THEN {"bold"} ELSE {})
    \cup (IF Range(anc) \cap {"i", "em"} # {} THEN {"italic"} ELSE {})
    \cup (IF Range(anc) \cap {"u", "a"} # {} THEN {"underlined"} ELSE {})
    \cup (IF Range(anc) \cap {"h1", "h2", "h3", "h4", "h5", "h6"} # {}
        THEN {"reverse"} ELSE {})

\* C9: the style of an emitted text node is fixed by the tags of its
\* ancestors alone: bold iff under b, strong or a heading, italic iff under
\* i or em, underlined iff under u or a, reverse iff under a heading.
C9_StyleFromAncestors ==
    (lastText.seen /\ lastText.out # <<>>) =>
        lastText.out = Styled(lastText.text, C9_Style(lastText.anc))

\* a text emitted after an earlier sibling subtree set a style it does not
\* inherit
C9_Witness ==
    /\ lastText.seen
    /\ lastText.out # <<>>
    /\ lastElem.seen
    /\ lastElem.tag \in {"b", "strong", "i", "em", "u", "a"}
    /\ lastElem.tag \notin Range(lastText.anc)
    /\ Top.textLast


\* ------------------------------------------------------------------------
\* Properties of Epub::new and Epub::render
\* ------------------------------------------------------------------------
C1_Linear(n) == n.tag = "itemref" /\ (~n.linear.has \/ n.linear.v = "yes")

RECURSIVE C1_Expected(_)
C1_Expected(kids) ==
    IF kids = <<>> THEN <<>>
    ELSE (IF C1_Linear(Head(kids)) THEN <<Head(kids).idref.v>> ELSE <<>>)
         \o C1_Expected(Tail(kids))

\* C1: the spine parse_package builds is, in document order, the idref of
\* the itemref children of package/spine with no linear attribute or with
\* linear="yes"; its length is the number of those children.
C1_SpineIsLinearItemrefs ==
    package.status = "ok" =>
        /\ package.spine = C1_Expected(archive.package.spine.kids)
        /\ Len(package.spine) =
               Cardinality({i \in DOMAIN archive.package.spine.kids :
                               C1_Linear(archive.package.spine.kids[i])})

\* a spine built from one itemref with linear="yes" and one left out for a
\* linear value other than "yes" or "no"
C1_Witness ==
    /\ package.status = "ok"
    /\ Len(package.spine) = 1
    /\ \E i, j \in DOMAIN archive.package.spine.kids :
          /\ archive.package.spine.kids[i].tag = "itemref"
          /\ archive.package.spine.kids[i].linear = Attr("maybe")
          /\ archive.package.spine.kids[j].tag = "itemref"
          /\ archive.package.spine.kids[j].linear = Attr("yes")

\* the path up to its last '/', or nothing when it has none
C4_Dirname(q) ==
    IF \E i \in 1..Len(q) : q[i] = "/"
    THEN LET i == CHOOSE i \in 1..Len(q) :
                     q[i] = "/" /\ \A j \in (i + 1)..Len(q) : q[j] # "/"
         IN  SubSeq(q, 1, i - 1)
    ELSE <<>>

\* C4: the base_path parse_container returns is the package path with its
\* final '/'-separated segment removed, the remaining segments still
\* separated by '/'; it is empty when the path has a single segment.
C4_BasePathIsDirname ==
    container.status = "ok" => container.base_path = C4_Dirname(container.package_path)

C5_ItemLacksAttr(xml) ==
    /\ xml.wellformed
    /\ xml.manifest.has
    /\ \E i \in DOMAIN xml.manifest.kids :
          /\ xml.manifest.kids[i].tag = "item"
          /\ ~(xml.manifest.kids[i].id.has /\ xml.manifest.kids[i].href.has)

\* C5: when the manifest holds an item with no id or no href, Epub::new
\* returns an error to its caller (the process is not aborted) and no Epub
\* facade is constructed.
C5_MissingAttrIsError ==
    (phase # "start" /\ C5_ItemLacksAttr(archive.package)) =>
        (phase = "failed" /\ epub = NoResult)

\* C6: Epub::render with an index outside [0, len()), or whose spine idref
\* has no manifest entry, returns an error to its caller; the session goes on
\* and the facade can render again.
C6_BadIndexIsError ==
    (/\ lastRender.status # "none"
     /\ \/ lastRender.index >= Len(epub.spine)
        \/ epub.spine[lastRender.index + 1] \notin DOMAIN epub.manifest)
    => (lastRender.status = "err" /\ phase = "open")


\* ------------------------------------------------------------------------
\* Properties of ui::run
\* ------------------------------------------------------------------------
\* C7: every chapter index the pager passes to the Epub facade lies in
\* [0, epub.len()), whatever Progress was restored and however short the
\* spine is.
C7_ChapterArgInRange ==
    chapter_arg # -1 => (0 <= chapter_arg /\ chapter_arg < Len(book))

\* the pager started on a line of its first chapter
C10_StartedOnALine ==
    LET c == IF progress.has THEN progress.chapter ELSE 0
        l == IF progress.has THEN progress.line ELSE 0
    IN  c < Len(book) /\ l < book[c + 1].lines

\* C10: in the pager loop current_line is a line of the loaded chapter, and
\* text.len() - current_line, text.len() - 1 and epub.len() - 1 never go
\* below zero and nothing is divided by zero rows, also for a chapter of no
\* lines and a terminal of no rows.
C10_ScrollInRange ==
    (phase # "start" /\ C10_StartedOnALine) =>
        /\ phase \in {"draw", "read"} =>
              (0 <= ui.current_line /\ ui.current_line < ui.text)
        /\ fault \cap {"text.len() - current_line", "text.len() - 1",
                       "epub.len() - 1", "/ rows"} = {}

=============================================================================
